---------------------------- MODULE Spec2Model ----------------------------
(***************************************************************************)
(* A model of Blender2SkyCiv.py: the module-level pipeline that reads the  *)
(* mesh objects of a Blender scene and writes a SkyCiv structural model.   *)
(*                                                                         *)
(* Conventions of the model                                                *)
(*  - a coordinate is an integer (a multiple of an arbitrary small unit);  *)
(*    a point is a triple <<x, y, z>> in SOURCE (Blender) axes;            *)
(*  - a Python str is a sequence of one-character strings, so that         *)
(*    str(), ",".join(), .split(",") and int() are computed and not        *)
(*    assumed to be inverse to each other;                                 *)
(*  - a load magnitude is held in hundredths (0.15 is 15, 0.08 is 8,       *)
(*    100 is 10000);                                                       *)
(*  - a unit vector is held as [dir, norm2]: the vector dir / sqrt(norm2), *)
(*    and comparisons of its components are made exactly, on squares;      *)
(*  - the dictionary fields that are the same literal in every entry       *)
(*    (fixity codes, offsets, thickness, ...) are left out of the records. *)
(***************************************************************************)
EXTENDS Integers, Sequences, FiniteSets, TLC

(* ------------------------------ bounds -------------------------------- *)
\* most objects in a scene
MaxObjs == 2
\* most vertices in a scene, all mesh objects together
MaxNodes == 5
\* the grid the three vertices of a single triangle are drawn from
MaxX == 1
MaxY == 2
MaxZ == 1
\* most vertices of a single polygon or fan
MaxFanVerts == 5

VARIABLES
    scene,        \* bpy.context.scene.objects: a sequence of objects
    active,       \* bpy.context.view_layer.objects.active: an index of scene, 0 for none
    pc,           \* the position of the script
    obj_i,        \* extract_mesh_data: the position of `for obj in ...objects`
    nodes,        \* extract_mesh_data: nodes   (dict: node id -> record)
    members,      \* extract_mesh_data: members (dict: member id -> record)
    supports,     \* extract_mesh_data: supports (dict: node id -> record)
    node_src,     \* history: node id -> <<object, vertex.index>> it was made from
    member_src,   \* history: member id -> <<object, position of the edge>>
    plates,       \* plates (dict in insertion order: sequence of [key, nodes])
    plate_k,      \* add_loads_to_plates: the position of `for ... in plates.items()`
    area_loads,   \* area_loads (dict in insertion order)
    output_data,  \* the assembled document, or NoDoc
    file          \* the file at save_path: [state, doc]

vars == <<scene, active, pc, obj_i, nodes, members, supports, node_src,
          member_src, plates, plate_k, area_loads, output_data, file>>

(* --------------------------- Python helpers --------------------------- *)
Digits == <<"0", "1", "2", "3", "4", "5", "6", "7", "8", "9">>

\* str(n) for an int n >= 0
RECURSIVE str(_)
str(n) == IF n < 10 THEN <<Digits[n + 1]>>
          ELSE str(n \div 10) \o <<Digits[(n % 10) + 1]>>

DigitValue(c) == CHOOSE d \in 0..9 : Digits[d + 1] = c

\* int(s) for a str s of decimal digits; ValueError otherwise
RECURSIVE int(_)
int(s) == IF s = <<>> \/ \E i \in 1..Len(s) : s[i] \notin {Digits[d] : d \in 1..10}
          THEN "ValueError"
          ELSE IF Len(s) = 1 THEN DigitValue(s[1])
          ELSE 10 * int(SubSeq(s, 1, Len(s) - 1)) + DigitValue(s[Len(s)])

\* sep.join(parts), sep one character
RECURSIVE join(_, _)
join(sep, parts) ==
    IF parts = <<>> THEN <<>>
    ELSE IF Len(parts) = 1 THEN parts[1]
    ELSE parts[1] \o <<sep>> \o join(sep, Tail(parts))

\* s.split(sep), sep one character: "".split(",") is [""]
RECURSIVE split(_, _)
split(s, sep) ==
    IF \A i \in 1..Len(s) : s[i] # sep THEN <<s>>
    ELSE LET p == CHOOSE i \in 1..Len(s) :
                      s[i] = sep /\ \A j \in 1..(i - 1) : s[j] # sep
         IN  <<SubSeq(s, 1, p - 1)>> \o split(SubSeq(s, p + 1, Len(s)), sep)

\* lst[:n]
Slice(lst, n) == SubSeq(lst, 1, IF Len(lst) < n THEN Len(lst) ELSE n)

\* d[k] = v on a dict keyed by ints (a function)
DictSet(d, k, v) == [x \in DOMAIN d \cup {k} |-> IF x = k THEN v ELSE d[x]]

\* d[k] = v on a dict held in insertion order
DictPut(d, k, v) ==
    IF \E i \in 1..Len(d) : d[i].key = k
    THEN [i \in 1..Len(d) |-> IF d[i].key = k THEN [key |-> k, val |-> v] ELSE d[i]]
    ELSE Append(d, [key |-> k, val |-> v])

Keys(d) == {d[i].key : i \in 1..Len(d)}
Get(d, k) == (CHOOSE i \in 1..Len(d) : d[i].key = k)
EmptyDict == [x \in {} |-> 0]

(* ------------------------------ the host ------------------------------ *)
\* an object that is no mesh (a camera, a light, an empty)
NonMesh == [type |-> "EMPTY", verts |-> <<>>, edges |-> <<>>, polys |-> <<>>]

\* The meshes of the model: vertex indices are 0-based as in Blender, an edge
\* joins two different vertices, a polygon is a loop of three or more
\* different vertices.
RingEdges(nv) == [i \in 1..nv |-> <<i - 1, i % nv>>]
Wire(vs) == [type |-> "MESH", verts |-> vs,
             edges |-> [i \in 1..(Len(vs) - 1) |-> <<i - 1, i>>], polys |-> <<>>]
Ngon(vs) == [type |-> "MESH", verts |-> vs, edges |-> RingEdges(Len(vs)),
             polys |-> << [i \in 1..Len(vs) |-> i - 1] >>]
Fan(vs)  == [type |-> "MESH", verts |-> vs,
             edges |-> RingEdges(Len(vs)) \o [i \in 1..(Len(vs) - 3) |-> <<0, i + 1>>],
             polys |-> [i \in 1..(Len(vs) - 2) |-> <<0, i, i + 1>>]]

\* the object of a kind on a list of vertices
Kinds == {"EMPTY", "wire", "ngon", "fan"}
MakeObject(kind, vs) ==
    IF kind = "EMPTY" THEN NonMesh
    ELSE IF kind = "ngon" THEN Ngon(vs)
    ELSE IF kind = "fan" THEN Fan(vs)
    ELSE Wire(vs)
\* an object that is no mesh has no vertices, a polygon has three or more
KindFits(kind, n) ==
    /\ kind = "EMPTY" => n = 0
    /\ kind \in {"ngon", "fan"} => n >= 3

\* the points of the scenes of several objects: on the ground (z = 0) or not
ScenePoints == {<<0, 1, 0>>, <<0, 0, 1>>}
\* the points of the scenes of one triangle
Grid == {<<x, y, z>> : x \in 0..MaxX, y \in 0..MaxY, z \in 0..MaxZ}
\* the points of the scenes of one mesh of several polygons (a point may be
\* the place of several vertices)
FanPoints == {<<0, 0, 0>>, <<1, 0, 0>>, <<0, 1, 0>>, <<0, 0, 1>>}

RECURSIVE SumTo(_, _)
SumTo(sizes, i) == IF i = 0 THEN 0 ELSE SumTo(sizes, i - 1) + sizes[i]

\* Scenes of at most MaxObjs objects and at most MaxNodes vertices: the sizes
\* and kinds of the objects, and the points of all their vertices in a row.
IsScene(s) ==
    \E k \in 0..MaxObjs :
      \E sizes \in [1..k -> 0..MaxNodes], kinds \in [1..k -> Kinds] :
        /\ SumTo(sizes, k) <= MaxNodes
        /\ \A i \in 1..k : KindFits(kinds[i], sizes[i])
        /\ \E coords \in [1..SumTo(sizes, k) -> ScenePoints] :
             s = [i \in 1..k |->
                    MakeObject(kinds[i],
                               SubSeq(coords, SumTo(sizes, i - 1) + 1, SumTo(sizes, i)))]

\* Scenes of one object: no mesh, or one triangle with its vertices anywhere on
\* the grid.
IsTriangleScene(s) ==
    \/ s = <<NonMesh>>
    \/ \E v1 \in Grid, v2 \in Grid, v3 \in Grid : s = <<Ngon(<<v1, v2, v3>>)>>

\* Scenes of one object: no mesh, or one polygon or fan of three to MaxFanVerts
\* vertices.
IsFanScene(s) ==
    \/ s = <<NonMesh>>
    \/ \E n \in 3..MaxFanVerts :
         \E vs \in [1..n -> FanPoints], kind \in {"ngon", "fan"} :
            s = <<MakeObject(kind, vs)>>

(* ------------------------------ geometry ------------------------------ *)
Dot(u, v) == u[1] * v[1] + u[2] * v[2] + u[3] * v[3]

\* math.atan2(y, x) in degrees, as far as the comparisons of the code need it:
\* 2j stands for exactly 45 * j degrees, 2j + 1 for an angle strictly between
\* 45 * j and 45 * (j + 1) degrees. atan2(0, 0) is 0.
Atan2Deg(y, x) ==
    LET up(a, b) ==   \* a >= 0
            IF a = 0 THEN (IF b >= 0 THEN 0 ELSE 8)
            ELSE IF b > 0 THEN (IF a < b THEN 1 ELSE IF a = b THEN 2 ELSE 3)
            ELSE IF b = 0 THEN 4
            ELSE (IF a > -b THEN 5 ELSE IF a = -b THEN 6 ELSE 7)
    IN  IF y >= 0 THEN up(y, x) ELSE -up(-y, x)
Deg(d) == (2 * d) \div 45      \* a multiple of 45 degrees on the scale of Atan2Deg

\* What an expression gives: a list (a unit vector), the value False, or an
\* exception raised (its name is the tag).
Raise(exc) == [tag |-> exc, dir |-> <<0, 0, 0>>, norm2 |-> 0]
PyFalse == [tag |-> "False", dir |-> <<0, 0, 0>>, norm2 |-> 0]
Exceptions == {"ZeroDivisionError", "ValueError"}

\* calculate_normal(vertices): the unit normal, or the exception it raises
calculate_normal(vertices) ==
    LET v1 == vertices[1]
        v2 == vertices[2]
        v3 == vertices[3]
        vector1 == [i \in 1..3 |-> v2[i] - v1[i]]
        vector2 == [i \in 1..3 |-> v3[i] - v1[i]]
        normal == << vector1[2] * vector2[3] - vector1[3] * vector2[2],
                     vector1[3] * vector2[1] - vector1[1] * vector2[3],
                     vector1[1] * vector2[2] - vector1[2] * vector2[1] >>
        norm_length2 == Dot(normal, normal)
    IN  IF Len(vertices) # 3 THEN Raise("ValueError")      \* v1, v2, v3 = vertices
        ELSE IF norm_length2 = 0 THEN Raise("ZeroDivisionError")  \* n / norm_length
        ELSE [tag |-> "list", dir |-> normal, norm2 |-> norm_length2]

\* determine_load_direction(normal), normal a unit vector
determine_load_direction_shifted(normal) ==
    LET angle == Atan2Deg(normal.dir[2], normal.dir[1])
    IN  IF Deg(-45) < angle /\ angle <= Deg(45) THEN "X"
        ELSE IF Deg(45) < angle /\ angle <= Deg(135) THEN "Z"
        ELSE IF Deg(-135) < angle /\ angle <= Deg(-45) THEN "Z"
        ELSE "X"

determine_load_direction(normal) ==
    LET \* dividing by the length keeps the direction
        normalized_normal == [tag |-> "list", dir |-> normal.dir,
                              norm2 |-> Dot(normal.dir, normal.dir)]
        angle == Atan2Deg(normalized_normal.dir[2], normalized_normal.dir[1])
    IN  IF Deg(-45) <= angle /\ angle < Deg(45) THEN "X"
        ELSE IF Deg(45) <= angle /\ angle < Deg(135) THEN "Z"
        ELSE IF Deg(-135) <= angle /\ angle < Deg(-45) THEN "Z"
        ELSE "X"

\* the load magnitudes, in hundredths
MagFallback == 10000
MagRoof == 15
MagWall == 8

\* abs(normal[2]) > 0.5 for the unit vector dir / sqrt(norm2)
AbsZOverHalf(normal) == 4 * normal.dir[3] * normal.dir[3] > normal.norm2

(* -------------------------- extract_mesh_data -------------------------- *)
\* node_id = len(nodes) + 1
NextNodeIdPerObject(nodes_, i) == i
NextNodeId(nodes_, i) == Cardinality(DOMAIN nodes_) + 1

\* member_id = len(members) + 1
NextMemberId(members_) == Cardinality(DOMAIN members_) + 1

\* if vertex.co.z == 0
IsGroundSwapped(co) == co[2] = 0
IsGround(co) == co[3] = 0

\* node_A / node_B of the member of an edge: vertex_map[edge.vertices[0 / 1]]
EndpointSame(vertex_map, edge, which) == vertex_map[edge[1]]
Endpoint(vertex_map, edge, which) == vertex_map[edge[which + 1]]

\* `for i, vertex in enumerate(mesh.vertices)`, from position i (1-based) on;
\* vertex.index is the position of the vertex in mesh.vertices, from 0.
\* acc = [nodes, supports, node_src, vertex_map]
RECURSIVE VertexLoop(_, _, _, _)
VertexLoop(acc, o, mesh, i) ==
    IF i > Len(mesh.verts) THEN acc
    ELSE LET co == mesh.verts[i]
             index == i - 1
             node_id == NextNodeId(acc.nodes, i)
             withNode == [acc EXCEPT
                 !.vertex_map = DictSet(@, index, node_id),
                 !.nodes = DictSet(@, node_id, [x |-> co[1], y |-> co[3], z |-> co[2]]),
                 !.node_src = DictSet(@, node_id, <<o, index>>)]
             withSupport ==
                 IF IsGround(co)
                 THEN [withNode EXCEPT !.supports = DictSet(@, node_id, [node |-> node_id])]
                 ELSE withNode
         IN  VertexLoop(withSupport, o, mesh, i + 1)

\* `for edge in mesh.edges`, from position j (1-based) on
\* acc = [members, member_src]
RECURSIVE EdgeLoop(_, _, _, _, _)
EdgeLoop(acc, o, mesh, vertex_map, j) ==
    IF j > Len(mesh.edges) THEN acc
    ELSE LET edge == mesh.edges[j]
             member_id == NextMemberId(acc.members)
             next == [acc EXCEPT
                 !.members = DictSet(@, member_id,
                                [node_A |-> Endpoint(vertex_map, edge, 0),
                                 node_B |-> Endpoint(vertex_map, edge, 1)]),
                 !.member_src = DictSet(@, member_id, <<o, j>>)]
         IN  EdgeLoop(next, o, mesh, vertex_map, j + 1)

\* one turn of `for obj in bpy.context.scene.objects` on a mesh object
ExtractMesh ==
    /\ pc = "extract"
    /\ obj_i <= Len(scene)
    /\ scene[obj_i].type = "MESH"
    /\ LET mesh == scene[obj_i]
           v == VertexLoop([nodes |-> nodes, supports |-> supports,
                            node_src |-> node_src, vertex_map |-> EmptyDict],
                           obj_i, mesh, 1)
           e == EdgeLoop([members |-> members, member_src |-> member_src],
                         obj_i, mesh, v.vertex_map, 1)
       IN  /\ active' = obj_i
           /\ nodes' = v.nodes
           /\ supports' = v.supports
           /\ node_src' = v.node_src
           /\ members' = e.members
           /\ member_src' = e.member_src
    /\ obj_i' = obj_i + 1
    /\ UNCHANGED <<scene, pc, plates, plate_k, area_loads, output_data, file>>

\* one turn of the loop on an object whose type is not 'MESH'
SkipObject ==
    /\ pc = "extract"
    /\ obj_i <= Len(scene)
    /\ scene[obj_i].type # "MESH"
    /\ obj_i' = obj_i + 1
    /\ UNCHANGED <<scene, active, pc, nodes, members, supports, node_src,
                   member_src, plates, plate_k, area_loads, output_data, file>>

\* return nodes, members, supports
ExtractReturn ==
    /\ pc = "extract"
    /\ obj_i > Len(scene)
    /\ pc' = "plates"
    /\ UNCHANGED <<scene, active, obj_i, nodes, members, supports, node_src,
                   member_src, plates, plate_k, area_loads, output_data, file>>

(* ------------------- create_plates_from_mesh_data --------------------- *)
\* nodes = [str(i + 1) for i in poly.vertices]
PlateRefs(poly) == [k \in 1..Len(poly) |-> str(poly[k] + 1)]

\* plate_id = str(i + 1), i from enumerate(plate_specs)
PlateIdFromZero(i) == str(i)
PlateId(i) == str(i + 1)

\* plates_specs of create_plates_from_mesh_data: one "nodes" string per polygon
PlateSpecs(mesh) == [p \in 1..Len(mesh.polys) |-> join(",", PlateRefs(mesh.polys[p]))]

\* create_plates(plate_specs), from position p (1-based) on
RECURSIVE create_plates(_, _, _)
create_plates(acc, plate_specs, p) ==
    IF p > Len(plate_specs) THEN acc
    ELSE create_plates(DictPut(acc, PlateId(p - 1), [nodes |-> plate_specs[p]]),
                       plate_specs, p + 1)

\* mesh_data = bpy.context.object.data: the data of the active object
HasMeshData == active # 0 /\ scene[active].type = "MESH"
mesh_data == scene[active]

\* plates = create_plates_from_mesh_data(mesh_data)
CreatePlates ==
    /\ pc = "plates"
    /\ HasMeshData
    /\ plates' = create_plates(<<>>, PlateSpecs(mesh_data), 1)
    /\ plate_k' = 1
    /\ pc' = "loads"
    /\ UNCHANGED <<scene, active, obj_i, nodes, members, supports, node_src,
                   member_src, area_loads, output_data, file>>

\* No mesh object was made active: bpy.context.object is whatever was active
\* before (None, or an object that is no mesh), and reading .data.polygons of
\* it raises AttributeError.
PlatesFail ==
    /\ pc = "plates"
    /\ ~HasMeshData
    /\ pc' = "failed"
    /\ UNCHANGED <<scene, active, obj_i, nodes, members, supports, node_src,
                   member_src, plates, plate_k, area_loads, output_data, file>>

(* ------------------------- add_loads_to_plates ------------------------ *)
\* try: normal = calculate_normal(vertices[:3])  except: normal = False
TryNormalUncaught(vertices) == calculate_normal(Slice(vertices, 3))
TryNormal(vertices) ==
    LET r == calculate_normal(Slice(vertices, 3))
    IN  IF r.tag \in Exceptions THEN PyFalse ELSE r

\* the if / elif / else on the normal
ClassifyLoadNoAbs(normal) ==
    IF normal = PyFalse THEN [mag |-> MagFallback, direction |-> "Z"]
    ELSE IF normal.dir[3] > 0 /\ AbsZOverHalf(normal) THEN [mag |-> MagRoof, direction |-> "Y"]
    ELSE [mag |-> MagWall, direction |-> determine_load_direction(normal)]

ClassifyLoad(normal) ==
    IF normal = PyFalse THEN [mag |-> MagFallback, direction |-> "Z"]
    ELSE IF AbsZOverHalf(normal) THEN [mag |-> MagRoof, direction |-> "Y"]
    ELSE [mag |-> MagWall, direction |-> determine_load_direction(normal)]

\* vertices = [mesh.vertices[int(idx) - 1].co for idx in nodes_indices]
PlateVertices(mesh, nodes_indices) ==
    [k \in 1..Len(nodes_indices) |-> mesh.verts[(int(nodes_indices[k]) - 1) + 1]]

\* one turn of `for plate_id, plate_info in plates.items()`
AddLoad ==
    /\ pc = "loads"
    /\ plate_k <= Len(plates)
    /\ LET plate_id == plates[plate_k].key
           plate_info == plates[plate_k].val
           nodes_indices == split(plate_info.nodes, ",")
           vertices == PlateVertices(mesh_data, nodes_indices)
           normal == TryNormal(vertices)
           load == ClassifyLoad(normal)
       IN  IF normal.tag \in Exceptions
           THEN \* an exception that leaves the try ends the script
                /\ pc' = "failed"
                /\ UNCHANGED <<plate_k, area_loads>>
           ELSE /\ area_loads' = DictPut(area_loads, plate_id,
                                    [nodes |-> plate_info.nodes,
                                     mag |-> load.mag,
                                     direction |-> load.direction,
                                     column_direction |-> join(",", Slice(nodes_indices, 2))])
                /\ plate_k' = plate_k + 1
                /\ pc' = pc
    /\ UNCHANGED <<scene, active, obj_i, nodes, members, supports, node_src,
                   member_src, plates, output_data, file>>

\* return area_loads
LoadsReturn ==
    /\ pc = "loads"
    /\ plate_k > Len(plates)
    /\ pc' = "assemble"
    /\ UNCHANGED <<scene, active, obj_i, nodes, members, supports, node_src,
                   member_src, plates, plate_k, area_loads, output_data, file>>

(* --------------------------- the output file -------------------------- *)
\* define_materials(): the keys of the catalogue
define_materials == {str(1), str(2), str(3)}

\* output_data = {...}; output_data['area_loads'] = area_loads
Assemble ==
    /\ pc = "assemble"
    /\ output_data' = << [nodes |-> nodes, members |-> members, supports |-> supports,
                          materials |-> define_materials, plates |-> plates,
                          sections |-> {str(1)}, area_loads |-> area_loads] >>
    /\ pc' = "open"
    /\ UNCHANGED <<scene, active, obj_i, nodes, members, supports, node_src,
                   member_src, plates, plate_k, area_loads, file>>

\* json.dump writes the key of a dict entry: str(k) of an int key, a str key as it is
JsonKeyOfIntFromZero(k) == str(k - 1)
JsonKeyOfInt(k) == str(k)
JsonKeyOfStr(k) == k

\* the keys of each collection of the document json.dump(output_data, f) writes
JsonKeys(doc) ==
    [nodes |-> {JsonKeyOfInt(k) : k \in DOMAIN doc.nodes},
     members |-> {JsonKeyOfInt(k) : k \in DOMAIN doc.members},
     supports |-> {JsonKeyOfInt(k) : k \in DOMAIN doc.supports},
     materials |-> doc.materials,
     plates |-> {JsonKeyOfStr(k) : k \in Keys(doc.plates)},
     sections |-> doc.sections,
     area_loads |-> {JsonKeyOfStr(k) : k \in Keys(doc.area_loads)}]

\* open(save_path, 'w'): the file is created, or truncated, and is empty
OpenFile ==
    /\ pc = "open"
    /\ file' = [state |-> "empty", doc |-> <<>>]
    /\ pc' = "write"
    /\ UNCHANGED <<scene, active, obj_i, nodes, members, supports, node_src,
                   member_src, plates, plate_k, area_loads, output_data>>

\* open raises OSError (no such directory, no permission): nothing is created
OpenFail ==
    /\ pc = "open"
    /\ pc' = "failed"
    /\ UNCHANGED <<scene, active, obj_i, nodes, members, supports, node_src,
                   member_src, plates, plate_k, area_loads, output_data, file>>

\* json.dump writes the document chunk by chunk: a first part of it
WriteChunk ==
    /\ pc = "write"
    /\ file.state = "empty"
    /\ file' = [state |-> "partial", doc |-> <<>>]
    /\ UNCHANGED <<scene, active, pc, obj_i, nodes, members, supports, node_src,
                   member_src, plates, plate_k, area_loads, output_data>>

\* the last chunk is written, the with block closes the file, print
WriteLast ==
    /\ pc = "write"
    /\ file.state = "partial"
    /\ file' = [state |-> "complete", doc |-> <<JsonKeys(output_data[1])>>]
    /\ pc' = "done"
    /\ UNCHANGED <<scene, active, obj_i, nodes, members, supports, node_src,
                   member_src, plates, plate_k, area_loads, output_data>>

\* a write raises OSError (disk full, device gone): the with block closes the
\* file as it is and the exception ends the script
WriteFail ==
    /\ pc = "write"
    /\ pc' = "failed"
    /\ UNCHANGED <<scene, active, obj_i, nodes, members, supports, node_src,
                   member_src, plates, plate_k, area_loads, output_data, file>>

(* --------------------------- specifications --------------------------- *)
InitRest ==
    /\ active = 0
    /\ pc = "extract"
    /\ obj_i = 1
    /\ nodes = EmptyDict
    /\ members = EmptyDict
    /\ supports = EmptyDict
    /\ node_src = EmptyDict
    /\ member_src = EmptyDict
    /\ plates = <<>>
    /\ plate_k = 1
    /\ area_loads = <<>>
    /\ output_data = <<>>
    /\ file = [state |-> "absent", doc |-> <<>>]

Init == IsScene(scene) /\ InitRest
InitTriangle == IsTriangleScene(scene) /\ InitRest
InitFan == IsFanScene(scene) /\ InitRest

Next ==
    \/ ExtractMesh
    \/ SkipObject
    \/ ExtractReturn
    \/ CreatePlates
    \/ PlatesFail
    \/ AddLoad
    \/ LoadsReturn
    \/ Assemble
    \/ OpenFile
    \/ OpenFail
    \/ WriteChunk
    \/ WriteLast
    \/ WriteFail

\* scenes of several objects
Spec == Init /\ [][Next]_vars
\* scenes of one triangle
SpecTriangle == InitTriangle /\ [][Next]_vars
\* scenes of one polygon or fan
SpecFan == InitFan /\ [][Next]_vars

(* ------------------------ what the claims speak of -------------------- *)
\* the phases of the script
Extracted == pc # "extract"
PlatesBuilt == pc \in {"loads", "assemble", "open", "write", "done"}
LoadsBuilt == pc \in {"assemble", "open", "write", "done"}

MeshObjects == {o \in 1..Len(scene) : scene[o].type = "MESH"}

\* the vertices, and the edges, of the mesh objects of the scene in the order
\* the host enumerates them: <<object, vertex.index>>, <<object, position>>
RECURSIVE EnumVertices(_)
EnumVertices(o) ==
    IF o = 0 THEN <<>>
    ELSE EnumVertices(o - 1) \o
         (IF scene[o].type = "MESH"
          THEN [i \in 1..Len(scene[o].verts) |-> <<o, i - 1>>] ELSE <<>>)
RECURSIVE EnumEdges(_)
EnumEdges(o) ==
    IF o = 0 THEN <<>>
    ELSE EnumEdges(o - 1) \o
         (IF scene[o].type = "MESH"
          THEN [j \in 1..Len(scene[o].edges) |-> <<o, j>>] ELSE <<>>)

\* the source coordinates of the vertex a node was made from
SourceCo(k) == scene[node_src[k][1]].verts[node_src[k][2] + 1]

\* the node references of plate p, as integers
PlateNodeIds(p) ==
    LET refs == split(plates[p].val.nodes, ",")
    IN  [j \in 1..Len(refs) |-> int(refs[j])]

\* the polygon plate p was built from, and the places of its first three vertices
PolygonOf(p) == mesh_data.polys[p]
FirstThree(p) == [j \in 1..3 |-> mesh_data.verts[PolygonOf(p)[j] + 1]]

\* the cross product (v2 - v1) x (v3 - v1) of a triangle: a normal of its plane
Cross(t) ==
    LET a == <<t[2][1] - t[1][1], t[2][2] - t[1][2], t[2][3] - t[1][3]>>
        b == <<t[3][1] - t[1][1], t[3][2] - t[1][2], t[3][3] - t[1][3]>>
    IN  <<a[2] * b[3] - a[3] * b[2], a[3] * b[1] - a[1] * b[3], a[1] * b[2] - a[2] * b[1]>>
Degenerate(t) == Cross(t) = <<0, 0, 0>>
\* |n.z| > 0.5 for the unit normal n = Cross(t) / |Cross(t)|
Steep(t) == 4 * Cross(t)[3] * Cross(t)[3] > Dot(Cross(t), Cross(t))
\* the direction the claim gives a wall whose normal has the angle a in the XY plane
WallDirection(a) ==
    IF Deg(-45) <= a /\ a < Deg(45) THEN "X"
    ELSE IF Deg(45) <= a /\ a < Deg(135) THEN "Z"
    ELSE IF Deg(-135) <= a /\ a < Deg(-45) THEN "Z"
    ELSE "X"
\* the load of the plate of a triangle, by the three rules of the claims
RuleLoad(t) ==
    IF Degenerate(t) THEN [mag |-> 10000, direction |-> "Z"]
    ELSE IF Steep(t) THEN [mag |-> 15, direction |-> "Y"]
    ELSE [mag |-> 8, direction |-> WallDirection(Atan2Deg(Cross(t)[2], Cross(t)[1]))]

\* the plates that have their area load
Loaded == {p \in 1..Len(plates) : plates[p].key \in Keys(area_loads)}
LoadOf(p) == area_loads[Get(area_loads, plates[p].key)].val

(* ------------------------------- claims ------------------------------- *)

\* C1: after extract_mesh_data and create_plates_from_mesh_data the node ids
\* are exactly 1..N (N the vertices of all mesh objects), the member ids exactly
\* 1..M (M the edges of all mesh objects), the plate ids exactly 1..P; ids are
\* given in enumeration order, and the node and member counters go on from one
\* object to the next.
C1_DenseIds ==
    PlatesBuilt =>
        /\ DOMAIN nodes = 1..Len(EnumVertices(Len(scene)))
        /\ \A k \in DOMAIN nodes : node_src[k] = EnumVertices(Len(scene))[k]
        /\ DOMAIN members = 1..Len(EnumEdges(Len(scene)))
        /\ \A m \in DOMAIN members : member_src[m] = EnumEdges(Len(scene))[m]
        /\ Len(plates) = Len(mesh_data.polys)
        /\ \A p \in 1..Len(plates) : int(plates[p].key) = p

C1_Witness ==
    /\ PlatesBuilt
    /\ Cardinality(MeshObjects) >= 2
    /\ \A o \in MeshObjects : Len(scene[o].verts) >= 1 /\ Len(scene[o].edges) >= 1
    /\ Len(plates) >= 1

\* C2: every member has node_A # node_B, both are ids of the node set, and
\* they are the node ids given to the two endpoint vertices of the member's
\* edge in the same mesh object.
C2_MemberEndpoints ==
    Extracted =>
        \A m \in DOMAIN members :
            LET o == member_src[m][1]
                edge == scene[o].edges[member_src[m][2]]
                a == members[m].node_A
                b == members[m].node_B
            IN  /\ a # b
                /\ a \in DOMAIN nodes /\ b \in DOMAIN nodes
                /\ node_src[a] = <<o, edge[1]>>
                /\ node_src[b] = <<o, edge[2]>>

C2_Witness ==
    /\ Extracted
    /\ \E m \in DOMAIN members :
          /\ member_src[m][1] >= 2
          /\ \E k \in DOMAIN nodes : node_src[k][1] < member_src[m][1]

\* C3: every node reference of every plate is an id of the node set and is
\* the node id extract_mesh_data gave to that vertex of the plate's polygon,
\* also when the scene holds several mesh objects.
C3_PlateRefsAreNodeIds ==
    PlatesBuilt =>
        \A p \in 1..Len(plates) :
            /\ Len(PlateNodeIds(p)) = Len(PolygonOf(p))
            /\ \A j \in 1..Len(PlateNodeIds(p)) :
                  /\ PlateNodeIds(p)[j] \in DOMAIN nodes
                  /\ node_src[PlateNodeIds(p)[j]] = <<active, PolygonOf(p)[j]>>

\* C4: after extract_mesh_data a node id k has a support entry if and only if
\* the source z of the vertex that made node k is exactly 0; the entry is keyed
\* by k and its 'node' field is k.
C4_SupportIffGround ==
    Extracted =>
        /\ DOMAIN supports \subseteq DOMAIN nodes
        /\ \A k \in DOMAIN nodes :
              /\ (k \in DOMAIN supports) <=> (SourceCo(k)[3] = 0)
              /\ k \in DOMAIN supports => supports[k].node = k

C4_Witness ==
    /\ Extracted
    /\ \E k \in DOMAIN nodes : k >= 2 /\ k \in DOMAIN supports /\ node_src[k][1] >= 2
    /\ \E k \in DOMAIN nodes : k \notin DOMAIN supports /\ SourceCo(k)[3] # 0

\* C5: every plate is a triangle: for every polygon, also one of four or more
\* vertices, 'nodes' lists exactly three node ids, the references of the first
\* three vertices of the polygon.
C5_PlatesAreTriangles ==
    PlatesBuilt =>
        \A p \in 1..Len(plates) :
            /\ Len(PlateNodeIds(p)) = 3
            /\ \A j \in 1..3 : PlateNodeIds(p)[j] = PolygonOf(p)[j] + 1

\* C6: a plate whose first three vertices make a triangle that is not
\* degenerate, with |n.z| > 0.5 for its unit normal n, gets mag 0.15 and
\* direction 'Y', whatever n.x and n.y and whatever the winding order.
C6_SteepPlateLoad ==
    PlatesBuilt =>
        \A p \in Loaded :
            (~Degenerate(FirstThree(p)) /\ Steep(FirstThree(p)))
                => LoadOf(p).mag = 15 /\ LoadOf(p).direction = "Y"

\* a plate with a normal that points down and leans (n.x, n.y not 0) has its load
C6_Witness ==
    /\ PlatesBuilt
    /\ \E p \in Loaded :
          /\ Steep(FirstThree(p))
          /\ Cross(FirstThree(p))[3] < 0
          /\ Cross(FirstThree(p))[1] # 0
          /\ Cross(FirstThree(p))[2] # 0

C8_DegenerateFallback ==
    /\ PlatesBuilt =>
          \A p \in Loaded :
              /\ Degenerate(FirstThree(p))
                    => LoadOf(p).mag = 10000 /\ LoadOf(p).direction = "Z"
              /\ LoadOf(p).mag = RuleLoad(FirstThree(p)).mag
              /\ LoadOf(p).direction = RuleLoad(FirstThree(p)).direction
              /\ LoadOf(p).nodes = plates[p].val.nodes
    /\ LoadsBuilt => Loaded = 1..Len(plates)
    /\ (pc = "failed" /\ HasMeshData) => output_data # <<>>

\* a degenerate plate between two plates that are not, all three with their loads
C8_Witness ==
    /\ pc = "done"
    /\ \E p \in 2..(Len(plates) - 1) :
          /\ Degenerate(FirstThree(p))
          /\ ~Degenerate(FirstThree(p - 1))
          /\ ~Degenerate(FirstThree(p + 1))
          /\ Loaded = 1..Len(plates)

\* the keys "1", ..., "n"
Sequential(n) == {str(i) : i \in 1..n}
IsSequential(keys) == keys = Sequential(Cardinality(keys))

\* C9 as stated: in the output document the keys of nodes, members, supports,
\* plates and area_loads are each "1", "2", ..., "k", k the size of the
\* collection.
C9_AllKeysSequential ==
    pc = "done" =>
        /\ IsSequential(file.doc[1].nodes)
        /\ IsSequential(file.doc[1].members)
        /\ IsSequential(file.doc[1].supports)
        /\ IsSequential(file.doc[1].plates)
        /\ IsSequential(file.doc[1].area_loads)

\* C9 as amended: the keys of nodes, members, plates and area_loads are each
\* "1", ..., "k"; area_loads has one key per plate; the keys of supports are
\* the string-encoded node ids of the nodes made from a vertex of source z = 0,
\* a subset of the keys of nodes that need not be sequential.
C9_KeysSequentialButSupports ==
    pc = "done" =>
        /\ IsSequential(file.doc[1].nodes)
        /\ IsSequential(file.doc[1].members)
        /\ IsSequential(file.doc[1].plates)
        /\ IsSequential(file.doc[1].area_loads)
        /\ Cardinality(file.doc[1].nodes) = Cardinality(DOMAIN nodes)
        /\ Cardinality(file.doc[1].members) = Cardinality(DOMAIN members)
        /\ Cardinality(file.doc[1].plates) = Len(mesh_data.polys)
        /\ file.doc[1].area_loads = file.doc[1].plates
        /\ file.doc[1].supports = {str(k) : k \in {n \in DOMAIN nodes : SourceCo(n)[3] = 0}}
        /\ file.doc[1].supports \subseteq file.doc[1].nodes

\* a document whose supports are keyed "2" and up, with members and plates
C9_Witness ==
    /\ pc = "done"
    /\ file.doc[1].supports # {}
    /\ ~IsSequential(file.doc[1].supports)
    /\ file.doc[1].members # {}
    /\ file.doc[1].area_loads # {}

\* C10: a run has no partial success: when it ends, either the file holds the
\* whole document, or a step failed and no file content was produced; a
\* failure after the file is opened leaves no created, truncated or partly
\* written file.
C10_NoPartialOutput ==
    /\ pc = "done" => file.state = "complete"
    /\ pc = "failed" => file.state = "absent"
    /\ file.state # "absent" => output_data # <<>>

=============================================================================
